---- MODULE Spec2Model ----
(***************************************************************************)
(* Model of src/cdk.ts: the deployment script that uploads lambda.zip to   *)
(* S3, synthesizes a CloudFormation template with the CDK and submits it   *)
(* with CreateStack.  Strings that the program builds or takes apart are   *)
(* sequences of one-character strings; fixed literals that are only passed *)
(* along are TLA+ strings.                                                 *)
(***************************************************************************)
EXTENDS Integers, Sequences, FiniteSets, TLC

(***************************************************************************)
(* Bounds and inputs                                                       *)
(***************************************************************************)
\* number of sequential executions of the script that are followed
MaxRuns == 2

\* values +new Date() may return (stand-ins for epoch milliseconds on both
\* sides of a power of ten, and a clock set before the epoch)
ClockValues == {-1, 99, 100}

\* byte sequences crypto.randomBytes(4) may return
RandomSamples == { <<10, 27, 44, 61>>, <<243, 0, 255, 9>> }

\* what is found at ../lambda.zip when the stream is opened
FileStates == {"present", "absent", "unreadable"}

(***************************************************************************)
(* Program constants                                                       *)
(***************************************************************************)
REGION == "eu-central-1"

LAMBDA_BUCKET ==
  <<"c","d","k","-","t","e","s","t","-","t","f","n","-",
    "l","a","m","b","d","a","s">>

\* randomBytes(4)
NumRandomBytes == 4

\* RetentionDays.FIVE_DAYS
FIVE_DAYS == 5

(***************************************************************************)
(* String helpers                                                          *)
(***************************************************************************)
HexChars ==
  <<"0","1","2","3","4","5","6","7","8","9","a","b","c","d","e","f">>

DecChars == <<"0","1","2","3","4","5","6","7","8","9">>

Letters ==
  {"a","b","c","d","e","f","g","h","i","j","k","l","m",
   "n","o","p","q","r","s","t","u","v","w","x","y","z",
   "A","B","C","D","E","F","G","H","I","J","K","L","M",
   "N","O","P","Q","R","S","T","U","V","W","X","Y","Z"}

Digits == {"0","1","2","3","4","5","6","7","8","9"}

\* Buffer.toString('hex'): two lowercase hex digits per byte
RECURSIVE ToHex(_)
ToHex(bytes) ==
  IF bytes = <<>> THEN <<>>
  ELSE <<HexChars[(Head(bytes) \div 16) + 1], HexChars[(Head(bytes) % 16) + 1]>>
       \o ToHex(Tail(bytes))

\* decimal digits of a natural number
RECURSIVE NatToString(_)
NatToString(n) ==
  IF n < 10 THEN <<DecChars[n + 1]>>
  ELSE NatToString(n \div 10) \o <<DecChars[(n % 10) + 1]>>

\* `${n}` for a number n
NumberToString(n) ==
  IF n < 0 THEN <<"-">> \o NatToString(0 - n) ELSE NatToString(n)

\* generateUUID(): randomBytes(4).toString('hex')
generateUUID(bytes) == ToHex(bytes)

\* `tfn-${+new Date()}`
DeploymentNameOf(clock) == <<"t","f","n","-">> \o NumberToString(clock)

\* `${deploymentName}_${generateUUID()}`
FunctionNameOf(depName, uuid) == depName \o <<"_">> \o uuid

\* variant: the archive is stored under the function name, without suffix
PutObjectKeyNoSuffix(fnName) == fnName

\* `${functionName}.zip`, the Key of the PutObjectCommand
PutObjectKey(fnName) == fnName \o <<".","z","i","p">>

\* `${functionName}.zip`, the key given to lambda.S3Code
S3CodeKey(fnName) == fnName \o <<".","z","i","p">>

\* `arn:aws:s3:::${lambdaBucketName}`
BucketArnOf(bucketName) ==
  <<"a","r","n",":","a","w","s",":","s","3",":",":",":">> \o bucketName

\* the rest of s after its k-th colon
RECURSIVE AfterColons(_, _)
AfterColons(s, k) ==
  IF k = 0 \/ s = <<>> THEN s
  ELSE AfterColons(Tail(s), IF Head(s) = ":" THEN k - 1 ELSE k)

\* Bucket.fromBucketArn: the bucket name is the resource part of the ARN
fromBucketArn(arn) == [bucketArn |-> arn, bucketName |-> AfterColons(arn, 5)]

\* the stack name pattern quoted in main(): [a-zA-Z][-a-zA-Z0-9]*
MatchesStackNamePattern(s) ==
  /\ Len(s) >= 1
  /\ s[1] \in Letters
  /\ \A i \in 2..Len(s) : s[i] \in Letters \cup Digits \cup {"-"}

(***************************************************************************)
(* Stack definition                                                        *)
(***************************************************************************)
\* new SingleDeploymentStack(props): the resource graph the constructor
\* declares, in declaration order
SingleDeploymentStack(props) ==
  LET lambdaBucket == fromBucketArn(BucketArnOf(props.lambdaBucketName))
      internalFunctionName == "helloWorld"
      functionCode == [bucket |-> lambdaBucket,
                       key |-> S3CodeKey(props.functionName)]
  IN [ lambdaBucket |-> lambdaBucket,
       lambdaRole |->
         [ id |-> "Role",
           assumedBy |-> "lambda.amazonaws.com",
           description |-> "Example role",
           policy |->
             << [ actions |-> {"logs:PutLogEvents", "logs:CreateLogStream"},
                  resources |-> {"arn:aws:logs:*:*:log-group:/aws/lambda/*"} ] >> ],
       lambdaFn |->
         [ id |-> internalFunctionName,
           runtime |-> "nodejs14.x",
           handler |-> "index.handler",
           code |-> functionCode,
           role |-> "Role" ],
       logGroup |->
         [ id |-> <<"logGroup", internalFunctionName>>,
           logGroupName |-> <<"/aws/lambda/", [Ref |-> internalFunctionName]>>,
           retention |-> FIVE_DAYS,
           removalPolicy |-> "Delete" ],
       httpApi |->
         [ id |-> props.deploymentName,
           routes |->
             << [ path |-> "/{proxy+}",
                  methods |-> {"ANY"},
                  integration |-> [ id |-> "lambda",
                                    handler |-> internalFunctionName,
                                    payloadFormatVersion |-> "2.0" ] ] >> ] ]

\* toCloudFormation(stack) of ./utils: the declared resources as a template
\* document, keyed by resource
ToCloudFormation(stack) ==
  [ Resources |->
      [ Role |->
          [ Type |-> "AWS::IAM::Role",
            AssumeRolePolicyDocument |-> stack.lambdaRole.assumedBy,
            Description |-> stack.lambdaRole.description ],
        RoleDefaultPolicy |->
          [ Type |-> "AWS::IAM::Policy",
            Statements |-> stack.lambdaRole.policy,
            Roles |-> {[Ref |-> stack.lambdaRole.id]} ],
        Function |->
          [ Type |-> "AWS::Lambda::Function",
            Code |-> [ S3Bucket |-> stack.lambdaFn.code.bucket.bucketName,
                       S3Key |-> stack.lambdaFn.code.key ],
            Handler |-> stack.lambdaFn.handler,
            Runtime |-> stack.lambdaFn.runtime,
            Role |-> [Ref |-> stack.lambdaFn.role] ],
        LogGroup |->
          [ Type |-> "AWS::Logs::LogGroup",
            LogGroupName |-> stack.logGroup.logGroupName,
            RetentionInDays |-> stack.logGroup.retention,
            DeletionPolicy |-> stack.logGroup.removalPolicy ],
        HttpApi |->
          [ Type |-> "AWS::ApiGatewayV2::Api",
            Name |-> stack.httpApi.id,
            ProtocolType |-> "HTTP" ],
        Integration |->
          [ Type |-> "AWS::ApiGatewayV2::Integration",
            IntegrationType |-> "AWS_PROXY",
            IntegrationUri |-> [Ref |-> stack.httpApi.routes[1].integration.handler],
            PayloadFormatVersion |->
              stack.httpApi.routes[1].integration.payloadFormatVersion ],
        Route |->
          [ Type |-> "AWS::ApiGatewayV2::Route",
            RouteKey |-> <<stack.httpApi.routes[1].methods,
                           stack.httpApi.routes[1].path>> ] ] ]

\* JSON.stringify(template): the document as a request body
JSONStringify(template) == <<"json", template>>

\* the template declares identity resources, for which CloudFormation
\* demands CAPABILITY_IAM
HasIdentityResource(body) ==
  \E r \in DOMAIN body[2].Resources :
     body[2].Resources[r].Type \in {"AWS::IAM::Role", "AWS::IAM::Policy"}

\* variant: the command is built without Capabilities
NoCapabilities == {}

\* Capabilities of the CreateStackCommand
CreateStackCapabilities == {"CAPABILITY_IAM"}

\* variant: the stack is named after the function artifact
StackNameArgFunctionName(depName, fnName) == fnName

\* StackName of the CreateStackCommand
StackNameArg(depName, fnName) == depName

(***************************************************************************)
(* State                                                                   *)
(***************************************************************************)
VARIABLES
  run,            \* which execution of the script this is
  pc,             \* position of main() / generateStack()
  fileState,      \* what is at ../lambda.zip during this run
  deploymentName, \* main: const deploymentName
  functionName,   \* generateStack: const functionName
  body,           \* the read stream handed to PutObjectCommand
  stack,          \* generateStack: const stack
  template,       \* main: const template
  response,       \* main: const response
  error,          \* the rejection that ended the run
  stdout,         \* what console.log has written in this run
  trace,          \* the steps this run has taken, in order
  uuids,          \* per run, the value generateUUID() returned
  s3Log,          \* requests handed to s3Client.send, all runs
  cfnLog,         \* requests handed to the CloudFormation client, all runs
  objects,        \* what the S3 service stores
  remote          \* the stacks CloudFormation knows, with their status

vars == <<run, pc, fileState, deploymentName, functionName, body, stack,
          template, response, error, stdout, trace, uuids, s3Log, cfnLog,
          objects, remote>>

\* not assigned yet
None == <<>>

\* no rejection so far
NoError == "none"

\* a fresh process: nothing computed, nothing printed
Init ==
  /\ run = 1
  /\ pc = "main"
  /\ fileState \in FileStates
  /\ deploymentName = None
  /\ functionName = None
  /\ body = None
  /\ stack = None
  /\ template = None
  /\ response = None
  /\ error = NoError
  /\ stdout = <<>>
  /\ trace = <<>>
  /\ uuids = <<>>
  /\ s3Log = <<>>
  /\ cfnLog = <<>>
  /\ objects = {}
  /\ remote = <<>>

\* this run's entries of a request log
OfRun(log, r) == SelectSeq(log, LAMBDA e : e.run = r)

\* the stack names CloudFormation already holds
RemoteNames == {remote[i].name : i \in DOMAIN remote}

(***************************************************************************)
(* main() and generateStack(), one action per step                         *)
(***************************************************************************)
\* main: const deploymentName = `tfn-${+new Date()}`
ComputeDeploymentName ==
  /\ pc = "main"
  /\ \E clock \in ClockValues : deploymentName' = DeploymentNameOf(clock)
  /\ pc' = "uuid"
  /\ trace' = Append(trace, "clock")
  /\ UNCHANGED <<run, fileState, functionName, body, stack, template, response,
                 error, stdout, uuids, s3Log, cfnLog, objects, remote>>

\* generateStack: new S3Client; const functionName = ..._${generateUUID()}
GenerateFunctionName ==
  /\ pc = "uuid"
  /\ \E bytes \in RandomSamples :
       /\ Len(bytes) = NumRandomBytes
       /\ functionName' = FunctionNameOf(deploymentName, generateUUID(bytes))
       /\ uuids' = Append(uuids, generateUUID(bytes))
  /\ pc' = "open"
  /\ trace' = Append(trace, "uuid")
  /\ UNCHANGED <<run, fileState, deploymentName, body, stack, template,
                 response, error, stdout, s3Log, cfnLog, objects, remote>>

\* variant: the archive is read synchronously (readFileSync), which throws
\* at once when the file cannot be opened
CreateReadStreamSync ==
  /\ pc = "open"
  /\ IF fileState = "present"
     THEN /\ body' = [path |-> "../lambda.zip"]
          /\ pc' = "putSend"
          /\ trace' = Append(trace, "open")
          /\ error' = error
     ELSE /\ body' = body
          /\ pc' = "failed"
          /\ trace' = Append(trace, "openFail")
          /\ error' = IF fileState = "absent" THEN "ENOENT" ELSE "EACCES"
  /\ UNCHANGED <<run, fileState, deploymentName, functionName, stack, template,
                 response, stdout, uuids, s3Log, cfnLog, objects, remote>>

\* createReadStream(pathJoin(__dirname, '../lambda.zip')): returns a stream
\* at once, whatever is at the path; the file is opened later, and a failure
\* to open it is delivered through the stream
CreateReadStream ==
  /\ pc = "open"
  /\ body' = [path |-> "../lambda.zip"]
  /\ pc' = "putSend"
  /\ trace' = Append(trace, "open")
  /\ UNCHANGED <<run, fileState, deploymentName, functionName, stack, template,
                 response, error, stdout, uuids, s3Log, cfnLog, objects, remote>>

\* variant: the promise of s3Client.send is not awaited
S3SendNoAwait ==
  /\ pc = "putSend"
  /\ s3Log' = Append(s3Log, [run |-> run, op |-> "PutObject",
                             Bucket |-> LAMBDA_BUCKET,
                             Key |-> PutObjectKey(functionName),
                             Body |-> body])
  /\ pc' = "construct"
  /\ trace' = Append(trace, "putSend")
  /\ UNCHANGED <<run, fileState, deploymentName, functionName, body, stack,
                 template, response, error, stdout, uuids, cfnLog, objects, remote>>

\* s3Client.send(putObjectCommand): the PutObject request is handed to the client
S3Send ==
  /\ pc = "putSend"
  /\ s3Log' = Append(s3Log, [run |-> run, op |-> "PutObject",
                             Bucket |-> LAMBDA_BUCKET,
                             Key |-> PutObjectKey(functionName),
                             Body |-> body])
  /\ pc' = "putAwait"
  /\ trace' = Append(trace, "putSend")
  /\ UNCHANGED <<run, fileState, deploymentName, functionName, body, stack,
                 template, response, error, stdout, uuids, cfnLog, objects, remote>>

\* await s3Client.send(...) resolves: the object is stored
PutObjectAck ==
  /\ pc = "putAwait"
  /\ fileState = "present"
  /\ LET req == s3Log[Len(s3Log)]
     IN objects' = objects \cup {[Bucket |-> req.Bucket, Key |-> req.Key]}
  /\ pc' = "construct"
  /\ trace' = Append(trace, "putAck")
  /\ UNCHANGED <<run, fileState, deploymentName, functionName, body, stack,
                 template, response, error, stdout, uuids, s3Log, cfnLog, remote>>

\* variant: a rejected upload is caught and sent again
PutObjectFailRetry ==
  /\ pc = "putAwait"
  /\ error' = "UploadFailed"
  /\ pc' = "putSend"
  /\ trace' = Append(trace, "putFail")
  /\ Len(OfRun(s3Log, run)) < 2
  /\ UNCHANGED <<run, fileState, deploymentName, functionName, body, stack,
                 template, response, stdout, uuids, s3Log, cfnLog, objects, remote>>

\* await s3Client.send(...) rejects: the stream could not be read, or the
\* service refused; the rejection leaves generateStack and main uncaught
PutObjectFail ==
  /\ pc = "putAwait"
  /\ \/ /\ fileState = "absent"
        /\ error' = "ENOENT"
     \/ /\ fileState = "unreadable"
        /\ error' = "EACCES"
     \/ /\ fileState = "present"
        /\ error' \in {"AccessDenied", "NoSuchBucket"}
  /\ pc' = "failed"
  /\ trace' = Append(trace, "putFail")
  /\ UNCHANGED <<run, fileState, deploymentName, functionName, body, stack,
                 template, response, stdout, uuids, s3Log, cfnLog, objects, remote>>

\* const stack = new SingleDeploymentStack({...})
ConstructStack ==
  /\ pc = "construct"
  /\ stack' = SingleDeploymentStack([deploymentName |-> deploymentName,
                                     functionName |-> functionName,
                                     lambdaBucketName |-> LAMBDA_BUCKET])
  /\ pc' = "convert"
  /\ trace' = Append(trace, "construct")
  /\ UNCHANGED <<run, fileState, deploymentName, functionName, body, template,
                 response, error, stdout, uuids, s3Log, cfnLog, objects, remote>>

\* variant: the exception of a construct is caught and the run goes on with
\* an empty template
ConstructStackFailIgnored ==
  /\ pc = "construct"
  /\ error' = "SynthesisError"
  /\ template' = [Resources |-> <<>>]
  /\ pc' = "createSend"
  /\ trace' = Append(trace, "constructFail")
  /\ UNCHANGED <<run, fileState, deploymentName, functionName, body, stack,
                 response, stdout, uuids, s3Log, cfnLog, objects, remote>>

\* a construct throws: the exception leaves generateStack and main uncaught
ConstructStackFail ==
  /\ pc = "construct"
  /\ error' = "SynthesisError"
  /\ pc' = "failed"
  /\ trace' = Append(trace, "constructFail")
  /\ UNCHANGED <<run, fileState, deploymentName, functionName, body, stack,
                 template, response, stdout, uuids, s3Log, cfnLog, objects, remote>>

\* return toCloudFormation(stack); main: const template = await ...
ConvertStack ==
  /\ pc = "convert"
  /\ template' = ToCloudFormation(stack)
  /\ pc' = "logTemplate"
  /\ trace' = Append(trace, "convert")
  /\ UNCHANGED <<run, fileState, deploymentName, functionName, body, stack,
                 response, error, stdout, uuids, s3Log, cfnLog, objects, remote>>

\* toCloudFormation throws
ConvertStackFail ==
  /\ pc = "convert"
  /\ error' = "SynthesisError"
  /\ pc' = "failed"
  /\ trace' = Append(trace, "convertFail")
  /\ UNCHANGED <<run, fileState, deploymentName, functionName, body, stack,
                 template, response, stdout, uuids, s3Log, cfnLog, objects, remote>>

\* console.log('template: ', JSON.stringify(template, null, 2))
LogTemplate ==
  /\ pc = "logTemplate"
  /\ stdout' = Append(stdout, <<"template: ", JSONStringify(template)>>)
  /\ pc' = "createSend"
  /\ trace' = Append(trace, "logTemplate")
  /\ UNCHANGED <<run, fileState, deploymentName, functionName, body, stack,
                 template, response, error, uuids, s3Log, cfnLog, objects, remote>>

\* new CloudFormationClient; new CreateStackCommand; client.send(command)
CreateStackSend ==
  /\ pc = "createSend"
  /\ cfnLog' = Append(cfnLog, [run |-> run, op |-> "CreateStack",
                               StackName |-> StackNameArg(deploymentName, functionName),
                               TemplateBody |-> JSONStringify(template),
                               Capabilities |-> CreateStackCapabilities])
  /\ pc' = "createAwait"
  /\ trace' = Append(trace, "createSend")
  /\ UNCHANGED <<run, fileState, deploymentName, functionName, body, stack,
                 template, response, error, stdout, uuids, s3Log, objects, remote>>

\* what CloudFormation refuses outright
CreateStackRefusal(req) ==
  IF ~MatchesStackNamePattern(req.StackName) THEN "ValidationError"
  ELSE IF HasIdentityResource(req.TemplateBody)
          /\ "CAPABILITY_IAM" \notin req.Capabilities
       THEN "InsufficientCapabilitiesException"
  ELSE IF req.StackName \in RemoteNames THEN "AlreadyExistsException"
  ELSE NoError

\* const response = await client.send(command): the request is accepted and
\* the stack starts to be created
CreateStackAck ==
  /\ pc = "createAwait"
  /\ LET req == cfnLog[Len(cfnLog)]
     IN /\ CreateStackRefusal(req) = NoError
        /\ remote' = Append(remote, [name |-> req.StackName, status |-> "SUBMITTED"])
        /\ response' = [StackId |-> <<"stack/", req.StackName>>]
  /\ pc' = "logResponse"
  /\ trace' = Append(trace, "createAck")
  /\ UNCHANGED <<run, fileState, deploymentName, functionName, body, stack,
                 template, error, stdout, uuids, s3Log, cfnLog, objects>>

\* variant: a rejected CreateStack is followed by the removal of the archive
CreateStackRejectCleanup ==
  /\ pc = "createAwait"
  /\ error' = "CreateStackFailed"
  /\ LET put == OfRun(s3Log, run)[1]
     IN /\ s3Log' = Append(s3Log, [run |-> run, op |-> "DeleteObject",
                                   Bucket |-> put.Bucket, Key |-> put.Key,
                                   Body |-> None])
        /\ objects' = objects \ {[Bucket |-> put.Bucket, Key |-> put.Key]}
  /\ pc' = "failed"
  /\ trace' = Append(trace, "createReject")
  /\ UNCHANGED <<run, fileState, deploymentName, functionName, body, stack,
                 template, response, stdout, uuids, cfnLog, remote>>

\* await client.send(command) rejects; the rejection leaves main uncaught
CreateStackReject ==
  /\ pc = "createAwait"
  /\ LET req == cfnLog[Len(cfnLog)]
     IN IF CreateStackRefusal(req) # NoError
        THEN error' = CreateStackRefusal(req)
        ELSE error' \in {"AccessDenied", "ValidationError"}
  /\ pc' = "failed"
  /\ trace' = Append(trace, "createReject")
  /\ UNCHANGED <<run, fileState, deploymentName, functionName, body, stack,
                 template, response, stdout, uuids, s3Log, cfnLog, objects, remote>>

\* variant: after printing the acknowledgement the run asks for the status
\* of the stack once more
LogResponsePoll ==
  /\ pc = "logResponse"
  /\ stdout' = Append(stdout, response)
  /\ cfnLog' = Append(cfnLog, [run |-> run, op |-> "DescribeStacks",
                               StackName |-> deploymentName,
                               TemplateBody |-> JSONStringify(template),
                               Capabilities |-> {}])
  /\ pc' = "done"
  /\ trace' = Append(trace, "logResponse")
  /\ UNCHANGED <<run, fileState, deploymentName, functionName, body, stack,
                 template, response, error, uuids, s3Log, objects, remote>>

\* console.log(response); main returns
LogResponse ==
  /\ pc = "logResponse"
  /\ stdout' = Append(stdout, response)
  /\ pc' = "done"
  /\ trace' = Append(trace, "logResponse")
  /\ UNCHANGED <<run, fileState, deploymentName, functionName, body, stack,
                 template, response, error, uuids, s3Log, cfnLog, objects, remote>>

(***************************************************************************)
(* Environment                                                             *)
(***************************************************************************)
\* CloudFormation works on a submitted stack on its own
RemoteProgress ==
  /\ \E i \in DOMAIN remote :
       \/ /\ remote[i].status = "SUBMITTED"
          /\ remote' = [remote EXCEPT ![i].status = "IN_PROGRESS"]
       \/ /\ remote[i].status = "IN_PROGRESS"
          /\ \E s \in {"CREATE_COMPLETE", "ROLLBACK_COMPLETE"} :
               remote' = [remote EXCEPT ![i].status = s]
  /\ UNCHANGED <<run, pc, fileState, deploymentName, functionName, body, stack,
                 template, response, error, stdout, trace, uuids, s3Log, cfnLog,
                 objects>>

\* the script is executed again, in a new process, after the last one ended
NewRun ==
  /\ pc \in {"done", "failed"}
  /\ run < MaxRuns
  /\ run' = run + 1
  /\ pc' = "main"
  /\ fileState' \in FileStates
  /\ deploymentName' = None
  /\ functionName' = None
  /\ body' = None
  /\ stack' = None
  /\ template' = None
  /\ response' = None
  /\ error' = NoError
  /\ stdout' = <<>>
  /\ trace' = <<>>
  /\ UNCHANGED <<uuids, s3Log, cfnLog, objects, remote>>

Next ==
  \/ ComputeDeploymentName
  \/ GenerateFunctionName
  \/ CreateReadStream
  \/ S3Send
  \/ PutObjectAck
  \/ PutObjectFail
  \/ ConstructStack
  \/ ConstructStackFail
  \/ ConvertStack
  \/ ConvertStackFail
  \/ LogTemplate
  \/ CreateStackSend
  \/ CreateStackAck
  \/ CreateStackReject
  \/ LogResponse
  \/ RemoteProgress
  \/ NewRun

Spec == Init /\ [][Next]_vars

(***************************************************************************)
(* Properties                                                              *)
(***************************************************************************)
Range(s) == {s[i] : i \in DOMAIN s}

IsPrefix(s, t) == Len(s) <= Len(t) /\ \A i \in DOMAIN s : s[i] = t[i]

NoRepeats(s) == \A i, j \in DOMAIN s : i # j => s[i] # s[j]

\* the steps of a run that nothing fails in
FullRun ==
  <<"clock", "uuid", "open", "putSend", "putAck", "construct", "convert",
    "logTemplate", "createSend", "createAck", "logResponse">>

\* a run that failed: the steps before the failing one, then its failure
FailedRun(failure, step) ==
  LET k == CHOOSE i \in DOMAIN FullRun : FullRun[i] = step
  IN SubSeq(FullRun, 1, k - 1) \o <<failure>>

FailedRuns ==
  { FailedRun("putFail", "putAck"), FailedRun("constructFail", "construct"),
    FailedRun("convertFail", "convert"), FailedRun("createReject", "createAck") }

SynthesisFailed == trace # <<>> /\ trace[Len(trace)] \in {"constructFail", "convertFail"}

UploadFailed == "putFail" \in Range(trace)

FailedAfterUpload ==
  "putAck" \in Range(trace)
  /\ Range(trace) \cap {"constructFail", "convertFail", "createReject"} # {}

\* the object a PutObject request names
ObjectOf(req) == [Bucket |-> req.Bucket, Key |-> req.Key]

\* the object a template's function code points at
CodeObjectOf(tpl) ==
  [Bucket |-> tpl.Resources.Function.Code.S3Bucket,
   Key |-> tpl.Resources.Function.Code.S3Key]

\* C1: in every run the steps happen in the order clock/uuid, upload,
\* synthesis, submission, each at most once and each only after the one
\* before it completed; CreateStack is issued only after the PutObject was
\* acknowledged and the template synthesized
C1_StepOrder ==
  /\ IsPrefix(trace, FullRun) \/ trace \in FailedRuns
  /\ \A r \in 1..run : Len(OfRun(s3Log, r)) <= 1 /\ Len(OfRun(cfnLog, r)) <= 1
  /\ Len(OfRun(s3Log, run)) = Cardinality({i \in DOMAIN trace : trace[i] = "putSend"})
  /\ Len(OfRun(cfnLog, run)) = Cardinality({i \in DOMAIN trace : trace[i] = "createSend"})
  /\ OfRun(cfnLog, run) # <<>> =>
       /\ template # None
       /\ "putAck" \in Range(trace)
       /\ ObjectOf(OfRun(s3Log, run)[1]) \in objects

C1_Witness == pc = "done" /\ trace = FullRun /\ run = MaxRuns

\* C2 as stated: when synthesis fails, no PutObject and no CreateStack
\* request has been issued in the run
C2_NoNetworkCallBeforeSynthesisFailure ==
  SynthesisFailed => OfRun(s3Log, run) = <<>> /\ OfRun(cfnLog, run) = <<>>

\* C2 amended: when synthesis fails the run ends failed with nothing printed
\* and no CreateStack request issued; the PutObject request of the run has
\* already been issued and acknowledged
C2_SynthesisFailureBeforeCreateStack ==
  SynthesisFailed =>
    /\ pc = "failed"
    /\ template = None
    /\ stdout = <<>>
    /\ OfRun(cfnLog, run) = <<>>
    /\ Len(OfRun(s3Log, run)) = 1
    /\ "putAck" \in Range(trace)
    /\ ObjectOf(OfRun(s3Log, run)[1]) \in objects

C2_Witness == SynthesisFailed /\ trace[Len(trace)] = "convertFail" /\ pc = "failed"

\* C3: a failed upload (file absent or unreadable, or the storage call
\* rejected) ends the run failed: the upload is issued once, nothing is
\* synthesized or printed and no CreateStack request is issued
C3_UploadFailureAborts ==
  UploadFailed =>
    /\ pc = "failed"
    /\ error # NoError
    /\ trace = FailedRun("putFail", "putAck")
    /\ Len(OfRun(s3Log, run)) = 1
    /\ stack = None
    /\ template = None
    /\ stdout = <<>>
    /\ OfRun(cfnLog, run) = <<>>

C3_Witness == UploadFailed /\ fileState = "present" /\ error = "NoSuchBucket"

\* C4: two runs whose generated tokens differ never send the same stack name
\* to CreateStack nor the same key to PutObject, whatever their clock values
C4_NoCollision ==
  \A r1, r2 \in DOMAIN uuids :
    (r1 # r2 /\ uuids[r1] # uuids[r2]) =>
      /\ \A i \in DOMAIN OfRun(cfnLog, r1), j \in DOMAIN OfRun(cfnLog, r2) :
           OfRun(cfnLog, r1)[i].StackName # OfRun(cfnLog, r2)[j].StackName
      /\ \A i \in DOMAIN OfRun(s3Log, r1), j \in DOMAIN OfRun(s3Log, r2) :
           OfRun(s3Log, r1)[i].Key # OfRun(s3Log, r2)[j].Key

\* C5: the function code location in the template is the bucket passed to
\* synthesis and the key <functionName>.zip, the very bucket and key of the
\* PutObject acknowledged earlier in the run; every template sent with
\* CreateStack points at an object that is stored
C5_CodeLocationIsUploadedObject ==
  /\ template # None =>
       /\ CodeObjectOf(template) =
            [Bucket |-> LAMBDA_BUCKET, Key |-> functionName \o <<".", "z", "i", "p">>]
       /\ "putAck" \in Range(trace)
       /\ CodeObjectOf(template) = ObjectOf(OfRun(s3Log, run)[1])
       /\ CodeObjectOf(template) \in objects
  /\ \A i \in DOMAIN cfnLog : CodeObjectOf(cfnLog[i].TemplateBody[2]) \in objects

C5_Witness ==
  /\ pc = "createAwait"
  /\ OfRun(cfnLog, run) # <<>>
  /\ CodeObjectOf(OfRun(cfnLog, run)[1].TemplateBody[2]) = ObjectOf(OfRun(s3Log, run)[1])

C7_NoCompensationAfterUpload ==
  FailedAfterUpload =>
    /\ pc = "failed"
    /\ error # NoError
    /\ trace \in FailedRuns
    /\ NoRepeats(trace)
    /\ Len(OfRun(s3Log, run)) = 1
    /\ OfRun(s3Log, run)[1].op = "PutObject"
    /\ ObjectOf(OfRun(s3Log, run)[1]) \in objects
    /\ Len(OfRun(cfnLog, run)) <= 1

C7_Witness ==
  FailedAfterUpload /\ trace[Len(trace)] = "createReject" /\ error = "AccessDenied"

\* C8: once CreateStack is acknowledged the run only prints the
\* acknowledgement and ends: it made one PutObject and one CreateStack
\* request and makes no other, and what it holds is the acknowledgement,
\* whatever status the remote stack reaches
C8_NoPollingAfterAck ==
  /\ \A r \in 1..run : Len(OfRun(cfnLog, r)) <= 1
  /\ "createAck" \in Range(trace) =>
       /\ pc \in {"logResponse", "done"}
       /\ trace \in {SubSeq(FullRun, 1, Len(FullRun) - 1), FullRun}
       /\ Len(OfRun(s3Log, run)) = 1
       /\ OfRun(cfnLog, run)[1].op = "CreateStack"
       /\ response = [StackId |-> <<"stack/", OfRun(cfnLog, run)[1].StackName>>]
       /\ pc = "done" => stdout[Len(stdout)] = response

C8_Witness ==
  /\ pc = "done"
  /\ "createAck" \in Range(trace)
  /\ \E i \in DOMAIN remote :
       remote[i].name = deploymentName /\ remote[i].status = "ROLLBACK_COMPLETE"

\* C9: every CreateStack request carries CAPABILITY_IAM and its template
\* declares an identity resource; no submission is refused for a missing
\* capability
C9_CapabilityAlwaysSupplied ==
  /\ \A i \in DOMAIN cfnLog :
       cfnLog[i].op = "CreateStack" =>
         /\ "CAPABILITY_IAM" \in cfnLog[i].Capabilities
         /\ HasIdentityResource(cfnLog[i].TemplateBody)
  /\ error # "InsufficientCapabilitiesException"

C9_Witness ==
  /\ pc = "logResponse"
  /\ HasIdentityResource(OfRun(cfnLog, run)[1].TemplateBody)
  /\ OfRun(cfnLog, run)[1].Capabilities = {"CAPABILITY_IAM"}

\* C10 as stated: with the local file absent the upload fails before the
\* storage client's send is started, so that no PutObject request was made
C10_AbsentFileFailsBeforeSend ==
  (fileState = "absent" /\ pc = "failed") => OfRun(s3Log, run) = <<>>

\* C10 amended: with the local file absent the upload step fails and nothing
\* is stored, synthesized or submitted by the run; the failure is not found
\* before the send: createReadStream returns a stream without opening the
\* file, s3Client.send is called with it, and the missing file is the
\* rejection of that send
C10_AbsentFileFailsInSend ==
  fileState = "absent" =>
    /\ IsPrefix(trace, FailedRun("putFail", "putAck"))
    /\ stack = None
    /\ template = None
    /\ OfRun(cfnLog, run) = <<>>
    /\ pc = "failed" =>
         /\ trace = FailedRun("putFail", "putAck")
         /\ error = "ENOENT"
         /\ Len(OfRun(s3Log, run)) = 1

C10_Witness == fileState = "absent" /\ pc = "failed" /\ error = "ENOENT"

====
